---- MODULE Spec2Model ----
(***************************************************************************)
(* keymatch: does a KeyboardEvent satisfy an Electron-style accelerator    *)
(* string ("CmdOrCtrl+Shift+J")?                                           *)
(*                                                                         *)
(* A JavaScript string is modelled as the sequence of its characters, each *)
(* character a one-character TLA+ string; `undefined` is a value that is   *)
(* no string.  A call either returns a boolean or throws: an outcome is a  *)
(* record [kind, value] with kind "return", "Error" (the Error thrown by   *)
(* parseMatchString) or "TypeError" (a method call on undefined).          *)
(***************************************************************************)
EXTENDS Integers, Sequences, FiniteSets, TLC

VARIABLES
    platform,     \* navigator.platform, which the tests redefine
    event,        \* the KeyboardEvent handed to keymatch
    matchString,  \* the accelerator handed to keymatch
    last          \* the last completed call of keymatch (NoCall before it)

vars == <<platform, event, matchString, last>>

-----------------------------------------------------------------------------
(* JavaScript strings                                                      *)

undefined == <<"<undefined>">>

UpperChars ==
    <<"A","B","C","D","E","F","G","H","I","J","K","L","M",
      "N","O","P","Q","R","S","T","U","V","W","X","Y","Z">>

LowerChars ==
    <<"a","b","c","d","e","f","g","h","i","j","k","l","m",
      "n","o","p","q","r","s","t","u","v","w","x","y","z">>

DigitChars == {"0","1","2","3","4","5","6","7","8","9"}

WhiteSpaceChars == {" ", "\t", "\n"}

UpperSet == {UpperChars[i] : i \in 1..Len(UpperChars)}

IsUpper(c) == c \in UpperSet

LowerOf ==
    [c \in UpperSet |->
        LowerChars[CHOOSE i \in 1..Len(UpperChars) : UpperChars[i] = c]]

\* String.prototype.toLowerCase, character by character
LowerChar(c) == IF IsUpper(c) THEN LowerOf[c] ELSE c

toLowerCase(s) == [i \in 1..Len(s) |-> LowerChar(s[i])]

\* String.prototype.trim: white space removed from both ends
RECURSIVE trimStart(_)
trimStart(s) ==
    IF Len(s) > 0 /\ Head(s) \in WhiteSpaceChars THEN trimStart(Tail(s)) ELSE s

RECURSIVE trimEnd(_)
trimEnd(s) ==
    IF Len(s) > 0 /\ s[Len(s)] \in WhiteSpaceChars
    THEN trimEnd(SubSeq(s, 1, Len(s) - 1))
    ELSE s

trim(s) == trimEnd(trimStart(s))

\* String.prototype.split on a one-character separator: never empty,
\* split("") is <<"">>
RECURSIVE split(_, _)
split(s, sep) ==
    IF \A i \in 1..Len(s) : s[i] # sep
    THEN <<s>>
    ELSE LET i == CHOOSE k \in 1..Len(s) :
                      s[k] = sep /\ \A j \in 1..(k - 1) : s[j] # sep
         IN  <<SubSeq(s, 1, i - 1)>> \o split(SubSeq(s, i + 1, Len(s)), sep)

\* Array.prototype.join with "+": how an accelerator is written from tokens
RECURSIVE join(_)
join(parts) ==
    IF Len(parts) = 0 THEN <<>>
    ELSE IF Len(parts) = 1 THEN parts[1]
    ELSE parts[1] \o <<"+">> \o join(Tail(parts))

-----------------------------------------------------------------------------
(* The platform query (./isMac.js)                                         *)

MacPlatforms == {"MacIntel"}

Platforms == {"MacIntel", "Win32", "Linux x86_64"}

isMac == platform \in MacPlatforms

-----------------------------------------------------------------------------
(* parseMatchString                                                        *)

s_cmd              == <<"c","m","d">>
s_command          == <<"c","o","m","m","a","n","d">>
s_ctrl             == <<"c","t","r","l">>
s_control          == <<"c","o","n","t","r","o","l">>
s_cmdorctrl        == <<"c","m","d","o","r","c","t","r","l">>
s_commandorcontrol ==
    <<"c","o","m","m","a","n","d","o","r","c","o","n","t","r","o","l">>
s_alt              == <<"a","l","t">>
s_option           == <<"o","p","t","i","o","n">>
s_shift            == <<"s","h","i","f","t">>
s_meta             == <<"m","e","t","a">>
s_super            == <<"s","u","p","e","r">>

\* Mutant: the four locals live outside the function and keep the previous
\* call's values.
NoModifiers_Leaked ==
    IF last.called
    THEN [ctrl |-> last.parsed.ctrl, alt |-> last.parsed.alt,
          shift |-> last.parsed.shift, meta |-> last.parsed.meta]
    ELSE [ctrl |-> FALSE, alt |-> FALSE, shift |-> FALSE, meta |-> FALSE]

\* the locals `let ctrl = false, alt = false, shift = false, meta = false`
NoModifiers == [ctrl |-> FALSE, alt |-> FALSE, shift |-> FALSE, meta |-> FALSE]

\* Mutant: CmdOrCtrl means Cmd on every platform.
CaseCmdOrCtrl_AlwaysMeta(req) == [req EXCEPT !.meta = TRUE]

\* case 'cmdorctrl': case 'commandorcontrol':
CaseCmdOrCtrl(req) ==
    IF isMac THEN [req EXCEPT !.meta = TRUE] ELSE [req EXCEPT !.ctrl = TRUE]

\* Mutant: Option is Alt on every platform.
CaseOption_AnyPlatform(req) == [req EXCEPT !.alt = TRUE]

\* case 'option':
CaseOption(req) == IF isMac THEN [req EXCEPT !.alt = TRUE] ELSE req

\* Mutant: a token the switch does not know falls into the 'ctrl' case.
CaseDefault_RequiresCtrl(req) == [req EXCEPT !.ctrl = TRUE]

\* the switch has no default: a token it does not list changes nothing
CaseDefault(req) == req

\* one pass of the loop body: the switch on a lowercased modifier token
SwitchModifier(req, modifier) ==
    CASE modifier \in {s_cmd, s_command} -> [req EXCEPT !.meta = TRUE]
      [] modifier \in {s_ctrl, s_control} -> [req EXCEPT !.ctrl = TRUE]
      [] modifier \in {s_cmdorctrl, s_commandorcontrol} -> CaseCmdOrCtrl(req)
      [] modifier = s_alt -> [req EXCEPT !.alt = TRUE]
      [] modifier = s_option -> CaseOption(req)
      [] modifier = s_shift -> [req EXCEPT !.shift = TRUE]
      [] modifier \in {s_meta, s_super} -> [req EXCEPT !.meta = TRUE]
      [] OTHER -> CaseDefault(req)

\* Mutant: the requirements are reset on every pass, so only the last
\* modifier token counts.
ModifierLoop_LastWins(req, modifierParts) ==
    IF Len(modifierParts) = 0 THEN req
    ELSE SwitchModifier([ctrl |-> FALSE, alt |-> FALSE, shift |-> FALSE,
                         meta |-> FALSE],
                        modifierParts[Len(modifierParts)])

\* `for (const modifier of modifierParts)`, from the locals' initial values
RECURSIVE ModifierLoop(_, _)
ModifierLoop(req, modifierParts) ==
    IF Len(modifierParts) = 0 THEN req
    ELSE ModifierLoop(SwitchModifier(req, Head(modifierParts)),
                      Tail(modifierParts))

Parsed(req, key) ==
    [kind |-> "return", ctrl |-> req.ctrl, alt |-> req.alt,
     shift |-> req.shift, meta |-> req.meta, key |-> key]

ParseError ==
    [kind |-> "Error", ctrl |-> FALSE, alt |-> FALSE,
     shift |-> FALSE, meta |-> FALSE, key |-> <<>>]

\* `!matchString?.trim()`
IsBlank(s) == s = undefined \/ Len(trim(s)) = 0

\* `return { ctrl: false, alt: false, shift: false, meta: false, key: '' }`
BlankParse ==
    [kind |-> "return", ctrl |-> FALSE, alt |-> FALSE,
     shift |-> FALSE, meta |-> FALSE, key |-> <<>>]

parseMatchString(s) ==
    IF IsBlank(s) THEN BlankParse
    ELSE LET parts == split(s, "+")
             key   == toLowerCase(parts[Len(parts)])
             modifierParts ==
                 [i \in 1..(Len(parts) - 1) |-> toLowerCase(parts[i])]
         IN  IF Len(key) = 0 THEN ParseError
             ELSE Parsed(ModifierLoop(NoModifiers, modifierParts), key)

-----------------------------------------------------------------------------
(* normalizeKey, normalizedEventKey                                        *)

k_space      == <<"s","p","a","c","e">>
k_arrowup    == <<"a","r","r","o","w","u","p">>
k_arrowdown  == <<"a","r","r","o","w","d","o","w","n">>
k_arrowleft  == <<"a","r","r","o","w","l","e","f","t">>
k_arrowright == <<"a","r","r","o","w","r","i","g","h","t">>

\* `keyMap[normalized] || normalized`
keyMap(normalized) ==
    CASE normalized = <<" ">> -> k_space
      [] normalized = k_arrowup -> <<"u","p">>
      [] normalized = k_arrowdown -> <<"d","o","w","n">>
      [] normalized = k_arrowleft -> <<"l","e","f","t">>
      [] normalized = k_arrowright -> <<"r","i","g","h","t">>
      [] OTHER -> normalized

KeyValue(s) == [kind |-> "return", value |-> s]

KeyTypeError == [kind |-> "TypeError", value |-> <<>>]

\* key.toLowerCase() throws a TypeError when key is undefined
normalizeKey(key) ==
    IF key = undefined THEN KeyTypeError
    ELSE KeyValue(keyMap(toLowerCase(key)))

\* /^Key[A-Z]$/.test(code)
IsKeyCode(code) ==
    /\ Len(code) = 4
    /\ SubSeq(code, 1, 3) = <<"K","e","y">>
    /\ IsUpper(code[4])

\* /^Digit[0-9]$/.test(code)
IsDigitCode(code) ==
    /\ Len(code) = 6
    /\ SubSeq(code, 1, 5) = <<"D","i","g","i","t">>
    /\ code[6] \in DigitChars

\* Mutant: the physical code is never looked at.
normalizedEventKey_KeyOnly(e) == normalizeKey(e.key)

normalizedEventKey(e) ==
    IF e.code # undefined /\ Len(e.code) > 0 /\ IsKeyCode(e.code)
    THEN KeyValue(toLowerCase(SubSeq(e.code, 4, Len(e.code))))
    ELSE IF e.code # undefined /\ Len(e.code) > 0 /\ IsDigitCode(e.code)
    THEN KeyValue(SubSeq(e.code, 6, Len(e.code)))
    ELSE normalizeKey(e.key)

-----------------------------------------------------------------------------
(* keymatch                                                                *)

Return(b) == [kind |-> "return", value |-> b]

Throw(kind) == [kind |-> kind, value |-> FALSE]

NotEvaluated == [kind |-> "not evaluated", value |-> <<>>]

\* the comparison of the return statement
Compare(e, nkey, parsed) ==
    /\ nkey = parsed.key
    /\ e.ctrlKey = parsed.ctrl
    /\ e.altKey = parsed.alt
    /\ e.shiftKey = parsed.shift
    /\ e.metaKey = parsed.meta

\* One call, with what it computed on the way: the parsed accelerator, the
\* normalized key (not evaluated when the parse threw) and the outcome.
keymatch(e, s) ==
    LET parsed == parseMatchString(s)
        nkey   == IF parsed.kind = "return" THEN normalizedEventKey(e)
                  ELSE NotEvaluated
    IN  [parsed  |-> parsed,
         nkey    |-> nkey,
         outcome |-> IF parsed.kind # "return" THEN Throw(parsed.kind)
                     ELSE IF nkey.kind # "return" THEN Throw(nkey.kind)
                     ELSE Return(Compare(e, nkey.value, parsed))]

-----------------------------------------------------------------------------
(* Inputs                                                                  *)

Str_K == <<"K">>
Str_k == <<"k">>

KeyboardEvent(key, code, ctrlKey, altKey, shiftKey, metaKey) ==
    [key |-> key, code |-> code, ctrlKey |-> ctrlKey, altKey |-> altKey,
     shiftKey |-> shiftKey, metaKey |-> metaKey]

EventsOf(keys, codes) ==
    {KeyboardEvent(k, c, f[1], f[2], f[3], f[4]) :
        k \in keys, c \in codes,
        f \in BOOLEAN \X BOOLEAN \X BOOLEAN \X BOOLEAN}

\* event.key values: absent, empty, letters in both cases, composed
\* characters and keys of the alias table.  They are key values of the DOM:
\* none is the name of a member of Object.prototype, for which the lookup
\* keyMap[normalized] would find an inherited property.
Keys ==
    {undefined, <<>>, Str_k, Str_K, <<"!">>, <<"ø">>, <<" ">>,
     <<"A","r","r","o","w","U","p">>}

\* event.code values: absent, empty, letter and digit positions, and codes
\* the two patterns reject
Codes ==
    {undefined, <<>>, <<"K","e","y","K">>, <<"K","e","y","O">>,
     <<"D","i","g","i","t","1">>, <<"A","r","r","o","w","U","p">>,
     <<"K","e","y","k">>, <<"D","i","g","i","t","1","2">>}

Events == EventsOf(Keys, Codes)

\* accelerators as the tests and the documentation write them
A_CmdOrCtrl        == <<"C","m","d","O","r","C","t","r","l">>
A_CommandOrControl ==
    <<"C","o","m","m","a","n","d","O","r","C","o","n","t","r","o","l">>
A_Option           == <<"O","p","t","i","o","n">>
A_Alt              == <<"A","l","t">>
A_Shift            == <<"S","h","i","f","t">>
A_Ctrl             == <<"C","t","r","l">>
A_Contrl           == <<"C","o","n","t","r","l">>

Acc_CmdOrCtrl_K        == join(<<A_CmdOrCtrl, Str_K>>)
Acc_CommandOrControl_K == join(<<A_CommandOrControl, Str_K>>)
Acc_Option_K           == join(<<A_Option, Str_K>>)
Acc_Contrl_K           == join(<<A_Contrl, Str_K>>)

Accelerators ==
    {<<>>, <<" ">>, <<" ", "\t">>, <<"+">>, join(<<A_Ctrl, <<>>>>),
     Str_K, Str_k, <<"O">>, <<"1">>, <<"U","p">>, <<"S","p","a","c","e">>,
     Acc_CmdOrCtrl_K, Acc_CommandOrControl_K, Acc_Option_K, Acc_Contrl_K,
     join(<<A_Option, <<"O">>>>), join(<<A_Alt, <<"O">>>>),
     join(<<A_Shift, <<"1">>>>), join(<<A_Alt, A_Shift, Str_K>>),
     join(<<A_Ctrl, <<" ">>>>)}

\* Accelerators written from tokens: at most MaxModifiers modifier tokens,
\* then a base key token.
MaxModifiers == 2

\* every name the switch lists, in mixed letter case, and a misspelt one
ModifierNames ==
    {A_CmdOrCtrl, A_CommandOrControl, <<"C","m","d">>,
     <<"C","O","M","M","A","N","D">>, A_Ctrl, <<"c","o","n","t","r","o","l">>,
     A_Alt, A_Option, A_Shift, <<"M","E","T","A">>, <<"S","u","p","e","r">>,
     A_Contrl}

\* a base key, and the empty token of an accelerator that ends in '+'
BaseKeyNames == {Str_K, <<>>}

WrittenAccelerators ==
    {join(mods \o <<key>>) :
        mods \in UNION {[1..n -> ModifierNames] : n \in 0..MaxModifiers},
        key \in BaseKeyNames}

\* the key K with every combination of modifiers
EventsOfK == EventsOf({Str_k}, {undefined})

\* a few arguments to call with in turn
EventsInTurn ==
    {KeyboardEvent(Str_k, undefined, FALSE, FALSE, FALSE, FALSE),
     KeyboardEvent(Str_k, undefined, TRUE, FALSE, FALSE, FALSE),
     KeyboardEvent(Str_k, undefined, FALSE, TRUE, FALSE, FALSE),
     KeyboardEvent(Str_K, <<"K","e","y","K">>, FALSE, FALSE, FALSE, TRUE)}

AcceleratorsInTurn ==
    {Str_K, Acc_CmdOrCtrl_K, Acc_Option_K, join(<<A_Ctrl, <<>>>>), <<>>}

-----------------------------------------------------------------------------
(* The calls                                                               *)

NoCall ==
    [called |-> FALSE, event |-> KeyboardEvent(undefined, undefined,
                                               FALSE, FALSE, FALSE, FALSE),
     matchString |-> undefined, mac |-> FALSE, firstMac |-> FALSE,
     parsed |-> ParseError, nkey |-> NotEvaluated, outcome |-> Throw("none")]

\* A completed call: its arguments, the platform answer while it ran (mac),
\* the answer while the first call of the run ran (firstMac), and what
\* keymatch computed.
Call(e, s) ==
    LET r == keymatch(e, s)
    IN  [called |-> TRUE, event |-> e, matchString |-> s, mac |-> isMac,
         firstMac |-> IF last.called THEN last.firstMac ELSE isMac,
         parsed |-> r.parsed, nkey |-> r.nkey, outcome |-> r.outcome]

InitOf(events, accelerators) ==
    /\ platform \in Platforms
    /\ event \in events
    /\ matchString \in accelerators
    /\ last = NoCall

\* Object.defineProperty(navigator, 'platform', {value: p})
SetPlatform ==
    \E p \in Platforms :
        /\ p # platform
        /\ platform' = p
        /\ UNCHANGED <<event, matchString, last>>

\* keymatch(event, matchString)
Keymatch ==
    /\ last' = Call(event, matchString)
    /\ UNCHANGED <<platform, event, matchString>>

\* the caller turns to another event and another accelerator
SetArguments ==
    \E e \in EventsInTurn, s \in AcceleratorsInTurn :
        /\ <<e, s>> # <<event, matchString>>
        /\ event' = e
        /\ matchString' = s
        /\ UNCHANGED <<platform, last>>

\* One event and one accelerator, drawn from the events and accelerators of
\* the tests and their edge cases.
Init == InitOf(Events, Accelerators)

Next == SetPlatform \/ Keymatch

Spec == Init /\ [][Next]_vars

\* One event and one accelerator, drawn from the accelerators written from
\* the modifier names.
InitParse == InitOf(EventsOfK, WrittenAccelerators)

NextParse == Keymatch

SpecParse == InitParse /\ [][NextParse]_vars

\* Calls with changing arguments, between changes of platform.
InitCalls == InitOf(EventsInTurn, AcceleratorsInTurn)

NextCalls == SetPlatform \/ Keymatch \/ SetArguments

SpecCalls == InitCalls /\ [][NextCalls]_vars

-----------------------------------------------------------------------------
(* What the claims speak of                                                *)

Tokens(s) == split(s, "+")

LastToken(s) == Tokens(s)[Len(Tokens(s))]

ModifierTokens(s) == SubSeq(Tokens(s), 1, Len(Tokens(s)) - 1)

\* the modifiers an event has pressed, and those a parsed accelerator requires
Pressed(e) ==
    {m \in {"ctrl", "alt", "shift", "meta"} :
        \/ m = "ctrl" /\ e.ctrlKey
        \/ m = "alt" /\ e.altKey
        \/ m = "shift" /\ e.shiftKey
        \/ m = "meta" /\ e.metaKey}

Required(parsed) ==
    {m \in {"ctrl", "alt", "shift", "meta"} :
        \/ m = "ctrl" /\ parsed.ctrl
        \/ m = "alt" /\ parsed.alt
        \/ m = "shift" /\ parsed.shift
        \/ m = "meta" /\ parsed.meta}

Matched == last.outcome = Return(TRUE)

HasNormalizedKey(s) == last.nkey.kind = "return" /\ last.nkey.value = s

\* a blank accelerator: nothing but white space
OnlyWhiteSpace(s) == \A i \in 1..Len(s) : s[i] \in WhiteSpaceChars

-----------------------------------------------------------------------------
(* C1: for an event with a present key and an accelerator that parses      *)
(* without failure, keymatch returns true if and only if the normalized    *)
(* key equals the lowercased last '+'-separated token of the accelerator   *)
(* and the pressed modifiers are exactly the required ones.                *)
C1_Original ==
    (last.called /\ last.event.key # undefined /\ last.parsed.kind = "return")
    => (Matched <=>
            /\ HasNormalizedKey(toLowerCase(LastToken(last.matchString)))
            /\ Pressed(last.event) = Required(last.parsed))

\* The same statement for the accelerators that are not blank.
C1_NonBlank ==
    (/\ last.called /\ last.event.key # undefined
     /\ last.parsed.kind = "return" /\ ~OnlyWhiteSpace(last.matchString))
    => (Matched <=>
            /\ HasNormalizedKey(toLowerCase(LastToken(last.matchString)))
            /\ Pressed(last.event) = Required(last.parsed))

(* C2: when CmdOrCtrl (or CommandOrControl) is the only modifier token, an *)
(* event with the right key matches with meta alone on a macOS-like        *)
(* platform and not with ctrl alone; elsewhere the two are inverted; the   *)
(* token requires exactly one of meta and control.                         *)
OnlyCmdOrCtrl(s) ==
    /\ Len(Tokens(s)) = 2
    /\ toLowerCase(Tokens(s)[1]) \in {s_cmdorctrl, s_commandorcontrol}
    /\ Len(Tokens(s)[2]) > 0

C2_CmdOrCtrl ==
    (last.called /\ OnlyCmdOrCtrl(last.matchString))
    => /\ last.parsed.kind = "return"
       /\ Required(last.parsed) = (IF last.mac THEN {"meta"} ELSE {"ctrl"})
       /\ HasNormalizedKey(toLowerCase(LastToken(last.matchString)))
          => /\ Pressed(last.event) = {"meta"} => last.outcome = Return(last.mac)
             /\ Pressed(last.event) = {"ctrl"} => last.outcome = Return(~last.mac)

\* after a change of platform from macOS, Ctrl+K alone matches "CmdOrCtrl+K"
C2_Witness ==
    /\ last.called /\ last.firstMac /\ ~last.mac
    /\ last.matchString = Acc_CmdOrCtrl_K
    /\ last.event.key = Str_k
    /\ Pressed(last.event) = {"ctrl"}
    /\ Matched

(* C3, as stated: on a platform that is not macOS-like, "Option+K" never   *)
(* matches, whatever the event.                                            *)
C3_Original ==
    (last.called /\ ~last.mac /\ last.matchString = Acc_Option_K) => ~Matched

(* C3, amended: on a platform that is not macOS-like, "Option+K" matches   *)
(* exactly the events with normalized key 'k' and no modifier pressed (so  *)
(* never one with alt pressed); on a macOS-like platform it matches        *)
(* exactly those with normalized key 'k' and alt as the only modifier.     *)
C3_Amended ==
    (last.called /\ last.matchString = Acc_Option_K)
    => (Matched <=>
            /\ HasNormalizedKey(Str_k)
            /\ Pressed(last.event) = (IF last.mac THEN {"alt"} ELSE {}))

C3_Witness ==
    /\ last.called /\ ~last.mac
    /\ last.matchString = Acc_Option_K
    /\ last.event.key = Str_k
    /\ Pressed(last.event) = {}
    /\ Matched

(* C4: for a blank accelerator (empty or white space only) keymatch never  *)
(* returns true, whatever the event.                                       *)
C4_Original ==
    (last.called /\ OnlyWhiteSpace(last.matchString)) => ~Matched

(* C6: a call returns a boolean or raises the invalid-accelerator Error,   *)
(* and raises it exactly when the accelerator is not blank and its last    *)
(* '+'-separated token is empty.                                           *)
C6_Original ==
    last.called
    => /\ last.outcome.kind \in {"return", "Error"}
       /\ last.outcome.kind = "Error"
          <=> /\ ~OnlyWhiteSpace(last.matchString)
              /\ Len(LastToken(last.matchString)) = 0

(* C8: the normalized key is the lowercased letter of a code 'Key' + one   *)
(* uppercase letter, the digit of a code 'Digit' + one digit, and          *)
(* otherwise the reported key lowercased and mapped by the alias table;    *)
(* with a letter or digit code the outcome does not depend on the          *)
(* reported key.                                                           *)
LetterOf(code) ==
    IF /\ code # undefined /\ Len(code) = 4
       /\ <<code[1], code[2], code[3]>> = <<"K", "e", "y">>
       /\ code[4] \in UpperSet
    THEN {code[4]} ELSE {}

DigitOf(code) ==
    IF /\ code # undefined /\ Len(code) = 6
       /\ <<code[1], code[2], code[3], code[4], code[5]>>
              = <<"D", "i", "g", "i", "t">>
       /\ code[6] \in DigitChars
    THEN {code[6]} ELSE {}

Aliases ==
    {<<<<" ">>, <<"s","p","a","c","e">>>>,
     <<<<"a","r","r","o","w","u","p">>, <<"u","p">>>>,
     <<<<"a","r","r","o","w","d","o","w","n">>, <<"d","o","w","n">>>>,
     <<<<"a","r","r","o","w","l","e","f","t">>, <<"l","e","f","t">>>>,
     <<<<"a","r","r","o","w","r","i","g","h","t">>, <<"r","i","g","h","t">>>>}

Aliased(k) ==
    IF \E a \in Aliases : a[1] = k
    THEN (CHOOSE a \in Aliases : a[1] = k)[2]
    ELSE k

C10_Original ==
    (last.called /\ last.parsed.kind = "return")
    => /\ last.nkey.kind = "return"
       /\ (last.event.key = undefined /\ last.event.code = undefined)
          => last.nkey.value = <<>>
       /\ last.outcome.kind = "return"

-----------------------------------------------------------------------------
(* The token table, as the specification gives it                          *)

\* what a lowercased modifier token requires, given the platform answer
Requires(token, mac) ==
    CASE token \in {<<"c","m","d">>, <<"c","o","m","m","a","n","d">>,
                    <<"m","e","t","a">>, <<"s","u","p","e","r">>} -> {"meta"}
      [] token \in {<<"c","t","r","l">>, <<"c","o","n","t","r","o","l">>}
            -> {"ctrl"}
      [] token = <<"a","l","t">> -> {"alt"}
      [] token = <<"s","h","i","f","t">> -> {"shift"}
      [] token \in {<<"c","m","d","o","r","c","t","r","l">>,
                    <<"c","o","m","m","a","n","d","o","r",
                      "c","o","n","t","r","o","l">>}
            -> IF mac THEN {"meta"} ELSE {"ctrl"}
      [] token = <<"o","p","t","i","o","n">> -> IF mac THEN {"alt"} ELSE {}
      [] OTHER -> {}

RecognizedTokens ==
    {<<"c","m","d">>, <<"c","o","m","m","a","n","d">>, <<"m","e","t","a">>,
     <<"s","u","p","e","r">>, <<"c","t","r","l">>,
     <<"c","o","n","t","r","o","l">>, <<"a","l","t">>, <<"s","h","i","f","t">>,
     <<"c","m","d","o","r","c","t","r","l">>,
     <<"c","o","m","m","a","n","d","o","r","c","o","n","t","r","o","l">>,
     <<"o","p","t","i","o","n">>}

RequiredBy(tokens, mac) ==
    UNION {Requires(toLowerCase(tokens[i]), mac) : i \in 1..Len(tokens)}

LowerSet == {LowerChars[i] : i \in 1..Len(LowerChars)}

UpperOf ==
    [c \in LowerSet |->
        UpperChars[CHOOSE i \in 1..Len(LowerChars) : LowerChars[i] = c]]

UpperChar(c) == IF c \in LowerSet THEN UpperOf[c] ELSE c

toUpperCase(s) == [i \in 1..Len(s) |-> UpperChar(s[i])]

\* the same modifier tokens in every order, repeated, and in another case
Rewritings(tokens) ==
    {[i \in 1..Len(tokens) |-> tokens[p[i]]] :
        p \in Permutations(1..Len(tokens))}
    \cup {tokens \o tokens,
          [i \in 1..Len(tokens) |-> toUpperCase(tokens[i])],
          [i \in 1..Len(tokens) |-> toLowerCase(tokens[i])]}

\* what a first call gives, by the contract of the specification: blank
\* accelerators have the empty base key, an empty last token is invalid
NormalizedKeyOf(e) ==
    IF LetterOf(e.code) # {}
    THEN <<LowerChar(CHOOSE c \in LetterOf(e.code) : TRUE)>>
    ELSE IF DigitOf(e.code) # {}
    THEN <<CHOOSE d \in DigitOf(e.code) : TRUE>>
    ELSE Aliased(toLowerCase(e.key))

FirstCallOutcome(e, s, mac) ==
    IF OnlyWhiteSpace(s)
    THEN Return(NormalizedKeyOf(e) = <<>> /\ Pressed(e) = {})
    ELSE IF Len(LastToken(s)) = 0 THEN Throw("Error")
    ELSE Return(/\ NormalizedKeyOf(e) = toLowerCase(LastToken(s))
                /\ Pressed(e) = RequiredBy(ModifierTokens(s), mac))

-----------------------------------------------------------------------------
(* C5: whatever calls and changes of platform came before, the outcome of  *)
(* a call is the outcome of a first call with the same arguments under the *)
(* platform answer current at the call: nothing is kept from earlier       *)
(* calls.                                                                  *)
C5_NoCaching ==
    last.called
    => last.outcome = FirstCallOutcome(last.event, last.matchString, last.mac)

\* a call after an earlier call and a change of platform: "CmdOrCtrl+K"
\* now matches the other modifier
C5_Witness ==
    /\ last.called /\ last.mac # last.firstMac
    /\ last.matchString = Acc_CmdOrCtrl_K
    /\ Pressed(last.event) = (IF last.mac THEN {"meta"} ELSE {"ctrl"})
    /\ Matched

(* C7, as stated: "Contrl+K", whose modifier token is not recognized,      *)
(* returns false for every event (stated for the events that have a key).  *)
C7_Original ==
    (last.called /\ last.matchString = Acc_Contrl_K
        /\ last.event.key # undefined)
    => last.outcome = Return(FALSE)

(* C7, amended: a modifier token that is not recognized raises no          *)
(* failure and is ignored: with a non-empty last token, the call returns   *)
(* true exactly when the normalized key is the lowercased last token and   *)
(* the pressed modifiers are exactly those the recognized tokens require.  *)
HasUnrecognizedModifier(s) ==
    \E i \in 1..Len(ModifierTokens(s)) :
        toLowerCase(ModifierTokens(s)[i]) \notin RecognizedTokens

C7_Amended ==
    (/\ last.called /\ HasUnrecognizedModifier(last.matchString)
     /\ Len(LastToken(last.matchString)) > 0)
    => /\ last.outcome.kind # "Error"
       /\ Matched <=>
            /\ HasNormalizedKey(toLowerCase(LastToken(last.matchString)))
            /\ Pressed(last.event)
                   = RequiredBy(ModifierTokens(last.matchString), last.mac)

C7_Witness ==
    /\ last.called
    /\ last.matchString = Acc_Contrl_K
    /\ last.event.key = Str_k
    /\ Pressed(last.event) = {}
    /\ Matched

(* C9: the parsed requirements are the union, over the tokens before the   *)
(* last, of what the token table gives for the lowercased token; so the    *)
(* parse and the outcome are the same for the modifier tokens in any       *)
(* order, repeated, or in another letter case.                             *)
C9_Requirements ==
    (last.called /\ last.parsed.kind = "return")
    => LET mods == ModifierTokens(last.matchString)
           key  == LastToken(last.matchString)
       IN  /\ Required(last.parsed) = RequiredBy(mods, last.mac)
           /\ last.mac = isMac
              => \A w \in Rewritings(mods) :
                    LET r == keymatch(last.event, join(w \o <<key>>))
                    IN  r.parsed = last.parsed /\ r.outcome = last.outcome

\* "Shift+Alt+K" matches K with alt and shift pressed
C9_Witness ==
    /\ last.called
    /\ last.matchString = join(<<A_Shift, A_Alt, Str_K>>)
    /\ Pressed(last.event) = {"alt", "shift"}
    /\ Matched

====
